---- MODULE Spec2Model ----
(***************************************************************************)
(* A model of the neato SDK (richlj/neato): the Beehive session manager    *)
(* (beehive.go) and the Nucleo request signer and command dispatcher       *)
(* (nucleo.go).                                                            *)
(*                                                                         *)
(* Texts (Go strings) are sequences of one-character strings; byte slices  *)
(* ([]byte, reqID) are sequences of numbers 0..255.  HMAC-SHA256 is an     *)
(* uninterpreted injective function of its key and message.                *)
(***************************************************************************)
EXTENDS Integers, Sequences, FiniteSets, TLC

(***************************************************************************)
(* Bounds of the model.                                                    *)
(***************************************************************************)
\* the clock runs from 0 to MaxTime ticks
MaxTime == 2
\* the random source yields one of the byte patterns 0..MaxSeed
MaxSeed == 1
\* the caller has MaxCalls call slots
MaxCalls == 2
\* at most MaxSessions calls of NewSession are made
MaxSessions == 2
\* clock ticks in one second of the formatted timestamp
TicksPerSecond == 2

(***************************************************************************)
(* Program constants.                                                      *)
(***************************************************************************)
tokenLength == 32
idLength == 16

platform == <<"i", "o", "s">>
scheme == <<"h", "t", "t", "p", "s">>
beehiveAcceptHeader ==
  <<"a", "p", "p", "l", "i", "c", "a", "t", "i", "o", "n", "/", "v", "n", "d", ".", "n", "e", "a", "t", "o", ".", "b", "e", "e", "h", "i", "v", "e", ".", "v", "1", "+", "j", "s", "o", "n">>
nucleoAcceptHeader ==
  <<"a", "p", "p", "l", "i", "c", "a", "t", "i", "o", "n", "/", "v", "n", "d", ".", "n", "e", "a", "t", "o", ".", "n", "u", "c", "l", "e", "o", ".", "v", "1">>
beehiveHost == "beehive.neatocloud.com"
nucleoHost == "nucleo.neatocloud.com:4443"

\* A pointer, or a slice that may be nil, is a tuple: <<>> is nil and <<v>>
\* holds v.  A reqID is its bytes, the nil reqID being the empty one.
Nil == <<>>
Ptr(v) == <<v>>
Deref(p) == p[1]
LF == "\n"

(***************************************************************************)
(* Bytes and characters.                                                   *)
(***************************************************************************)
\* the printable ASCII characters, codes 32..126 (code 96 is written GRAVE)
Ascii ==
  <<" ", "!", "\"", "#", "$", "%", "&", "'", "(", ")", "*", "+", ",", "-", ".", "/",
    "0", "1", "2", "3", "4", "5", "6", "7", "8", "9", ":", ";", "<", "=", ">", "?",
    "@", "A", "B", "C", "D", "E", "F", "G", "H", "I", "J", "K", "L", "M", "N", "O",
    "P", "Q", "R", "S", "T", "U", "V", "W", "X", "Y", "Z", "[", "\\", "]", "^", "_",
    "GRAVE", "a", "b", "c", "d", "e", "f", "g", "h", "i", "j", "k", "l", "m", "n", "o",
    "p", "q", "r", "s", "t", "u", "v", "w", "x", "y", "z", "{", "|", "}", "~">>

\* string(b) for one byte; a byte that is no printable character is written
\* with its number
Chr(b) == IF b >= 32 /\ b <= 126 THEN Ascii[b - 31] ELSE "\\x" \o ToString(b)

\* []byte(s) for one printable character
Ord(c) == 31 + CHOOSE i \in DOMAIN Ascii : Ascii[i] = c

\* string(bytes): the text of a byte slice
String(bytes) == [i \in DOMAIN bytes |-> Chr(bytes[i])]

\* []byte(text)
Bytes(text) == [i \in DOMAIN text |-> Ord(text[i])]

RECURSIVE Flatten(_)
Flatten(ss) == IF ss = <<>> THEN <<>> ELSE Head(ss) \o Flatten(Tail(ss))

\* encoding/hex: hextable
hextable == Bytes(<<"0", "1", "2", "3", "4", "5", "6", "7", "8", "9", "a", "b", "c", "d", "e", "f">>)

\* hex.Encode(dst, src): two bytes of hextable for each byte of src
hexEncode(raw) ==
  Flatten([i \in DOMAIN raw |-> <<hextable[(raw[i] \div 16) + 1], hextable[(raw[i] % 16) + 1]>>])

\* strings.ToLower on ASCII text
ToLower(text) ==
  [i \in DOMAIN text |->
     LET b == Ord(text[i]) IN IF b >= 65 /\ b <= 90 THEN Chr(b + 32) ELSE text[i]]

(***************************************************************************)
(* base64.StdEncoding, which encoding/json applies to a []byte value.      *)
(***************************************************************************)
encodeStd ==
  <<"A", "B", "C", "D", "E", "F", "G", "H", "I", "J", "K", "L", "M", "N", "O", "P",
    "Q", "R", "S", "T", "U", "V", "W", "X", "Y", "Z", "a", "b", "c", "d", "e", "f",
    "g", "h", "i", "j", "k", "l", "m", "n", "o", "p", "q", "r", "s", "t", "u", "v",
    "w", "x", "y", "z", "0", "1", "2", "3", "4", "5", "6", "7", "8", "9", "+", "/">>

B64Char(n) == encodeStd[n + 1]

RECURSIVE base64Encode(_)
base64Encode(src) ==
  IF Len(src) = 0 THEN <<>>
  ELSE IF Len(src) = 1 THEN
    LET v == src[1] * 65536
    IN  <<B64Char(v \div 262144), B64Char((v \div 4096) % 64), "=", "=">>
  ELSE IF Len(src) = 2 THEN
    LET v == src[1] * 65536 + src[2] * 256
    IN  <<B64Char(v \div 262144), B64Char((v \div 4096) % 64), B64Char((v \div 64) % 64), "=">>
  ELSE
    LET v == src[1] * 65536 + src[2] * 256 + src[3]
    IN  <<B64Char(v \div 262144), B64Char((v \div 4096) % 64), B64Char((v \div 64) % 64),
          B64Char(v % 64)>> \o base64Encode(SubSeq(src, 4, Len(src)))

IsB64(c) == \E i \in DOMAIN encodeStd : encodeStd[i] = c
B64Val(c) == (CHOOSE i \in DOMAIN encodeStd : encodeStd[i] = c) - 1

\* whether base64.StdEncoding.Decode accepts the text
RECURSIVE base64Valid(_)
base64Valid(s) ==
  IF Len(s) = 0 THEN TRUE
  ELSE IF Len(s) < 4 THEN FALSE
  ELSE IF Len(s) = 4 THEN
       /\ IsB64(s[1]) /\ IsB64(s[2])
       /\ \/ IsB64(s[3]) /\ IsB64(s[4])
          \/ IsB64(s[3]) /\ s[4] = "="
          \/ s[3] = "=" /\ s[4] = "="
  ELSE (\A i \in 1..4 : IsB64(s[i])) /\ base64Valid(SubSeq(s, 5, Len(s)))

\* base64.StdEncoding.Decode of a text it accepts
RECURSIVE base64Decode(_)
base64Decode(s) ==
  IF Len(s) = 0 THEN <<>>
  ELSE
    LET pad == IF s[4] # "=" THEN 0 ELSE IF s[3] # "=" THEN 1 ELSE 2
        v == B64Val(s[1]) * 262144 + B64Val(s[2]) * 4096
             + (IF pad < 2 THEN B64Val(s[3]) * 64 ELSE 0)
             + (IF pad < 1 THEN B64Val(s[4]) ELSE 0)
        three == <<v \div 65536, (v \div 256) % 256, v % 256>>
    IN  SubSeq(three, 1, 3 - pad) \o base64Decode(SubSeq(s, 5, Len(s)))

(***************************************************************************)
(* encoding/json as json.Marshal applies it to *request.                   *)
(***************************************************************************)
Digits == <<"0", "1", "2", "3", "4", "5", "6", "7", "8", "9">>

RECURSIVE jsonNat(_)
jsonNat(n) == IF n < 10 THEN <<Digits[n + 1]>> ELSE jsonNat(n \div 10) \o <<Digits[(n % 10) + 1]>>

\* an int field
jsonInt(n) == IF n < 0 THEN <<"-">> \o jsonNat(0 - n) ELSE jsonNat(n)

\* a bool field
jsonBool(b) == IF b THEN <<"t", "r", "u", "e">> ELSE <<"f", "a", "l", "s", "e">>

\* one character of a string field: quotes, backslashes and the HTML
\* characters are escaped
jsonChar(c) ==
  IF c = "\"" THEN <<"\\", "\"">>
  ELSE IF c = "\\" THEN <<"\\", "\\">>
  ELSE IF c = "<" THEN <<"\\", "u", "0", "0", "3", "c">>
  ELSE IF c = ">" THEN <<"\\", "u", "0", "0", "3", "e">>
  ELSE IF c = "&" THEN <<"\\", "u", "0", "0", "2", "6">>
  ELSE <<c>>

\* a string field
jsonString(s) == <<"\"">> \o Flatten([i \in DOMAIN s |-> jsonChar(s[i])]) \o <<"\"">>

RECURSIVE jsonJoin(_)
jsonJoin(items) ==
  IF Len(items) = 0 THEN <<>>
  ELSE IF Len(items) = 1 THEN items[1]
  ELSE items[1] \o <<",">> \o jsonJoin(Tail(items))

\* a []string field: a nil slice is null
jsonStrings(l) ==
  IF l = Nil THEN <<"n", "u", "l", "l">>
  ELSE <<"[">> \o jsonJoin([i \in DOMAIN Deref(l) |-> jsonString(Deref(l)[i])]) \o <<"]">>

\* an event (nucleo.go, type event)
marshalEvent(e) ==
     <<"{", "\"", "m", "o", "d", "e", "\"", ":">> \o jsonInt(e.Mode)
  \o <<",", "\"", "d", "a", "y", "\"", ":">> \o jsonInt(e.Day)
  \o <<",", "\"", "s", "t", "a", "r", "t", "T", "i", "m", "e", "\"", ":">> \o jsonString(e.StartTime)
  \o <<",", "\"", "b", "o", "u", "n", "d", "a", "r", "y", "I", "d", "\"", ":">> \o jsonString(e.BoundaryID)
  \o <<"}">>

\* a []event field: a nil slice is null
jsonEvents(l) ==
  IF l = Nil THEN <<"n", "u", "l", "l">>
  ELSE <<"[">> \o jsonJoin([i \in DOMAIN Deref(l) |-> marshalEvent(Deref(l)[i])]) \o <<"]">>

\* Params: every field is written, in the order of the struct
marshalParams(p) ==
     <<"{", "\"", "c", "a", "t", "e", "g", "o", "r", "y", "\"", ":">> \o jsonInt(p.Category)
  \o <<",", "\"", "m", "o", "d", "e", "\"", ":">> \o jsonInt(p.Mode)
  \o <<",", "\"", "m", "o", "d", "i", "f", "i", "e", "r", "\"", ":">> \o jsonInt(p.Modifier)
  \o <<",", "\"", "r", "o", "b", "o", "t", "S", "o", "u", "n", "d", "s", "\"", ":">> \o jsonBool(p.RobotSounds)
  \o <<",", "\"", "d", "i", "r", "t", "b", "i", "n", "A", "l", "e", "r", "t", "\"", ":">> \o jsonBool(p.DirtbinAlert)
  \o <<",", "\"", "a", "l", "l", "A", "l", "e", "r", "t", "s", "\"", ":">> \o jsonBool(p.AllAlerts)
  \o <<",", "\"", "l", "e", "d", "s", "\"", ":">> \o jsonBool(p.Leds)
  \o <<",", "\"", "b", "u", "t", "t", "o", "n", "C", "l", "i", "c", "k", "s", "\"", ":">> \o jsonBool(p.ButtonClicks)
  \o <<",", "\"", "d", "i", "r", "t", "b", "i", "n", "A", "l", "e", "r", "t", "R", "e", "m", "i", "n", "d", "e", "r", "I", "n", "t", "e", "r", "v", "a", "l", "\"", ":">> \o jsonInt(p.DirtbinAlertReminderInterval)
  \o <<",", "\"", "f", "i", "l", "t", "e", "r", "C", "h", "a", "n", "g", "e", "R", "e", "m", "i", "n", "d", "e", "r", "I", "n", "t", "e", "r", "v", "a", "l", "\"", ":">> \o jsonInt(p.FilterChangeReminderInterval)
  \o <<",", "\"", "b", "r", "u", "s", "h", "C", "h", "a", "n", "g", "e", "R", "e", "m", "i", "n", "d", "e", "r", "I", "n", "t", "e", "r", "v", "a", "l", "\"", ":">> \o jsonInt(p.BrushChangeReminderInterval)
  \o <<",", "\"", "c", "l", "o", "c", "k", "2", "4", "h", "\"", ":">> \o jsonBool(p.Clock24H)
  \o <<",", "\"", "l", "o", "c", "a", "l", "e", "\"", ":">> \o jsonString(p.Locale)
  \o <<",", "\"", "a", "v", "a", "i", "l", "a", "b", "l", "e", "L", "o", "c", "a", "l", "e", "s", "\"", ":">> \o jsonStrings(p.AvailableLocales)
  \o <<",", "\"", "n", "a", "v", "i", "g", "a", "t", "i", "o", "n", "M", "o", "d", "e", "\"", ":">> \o jsonInt(p.NavigationMode)
  \o <<",", "\"", "b", "o", "u", "n", "d", "a", "r", "y", "I", "d", "\"", ":">> \o jsonString(p.BoundaryID)
  \o <<",", "\"", "s", "p", "o", "t", "W", "i", "d", "t", "h", "\"", ":">> \o jsonInt(p.SpotWidth)
  \o <<",", "\"", "s", "p", "o", "t", "H", "e", "i", "g", "h", "t", "\"", ":">> \o jsonInt(p.SpotHeight)
  \o <<",", "\"", "e", "v", "e", "n", "t", "s", "\"", ":">> \o jsonEvents(p.Events)
  \o <<"}">>

\* a []byte field (reqID): a nil slice is null, any other the base64 text
jsonByteSlice(b) ==
  IF b = Nil THEN <<"n", "u", "l", "l">>
  ELSE <<"\"">> \o base64Encode(b) \o <<"\"">>

\* json.Marshal(req) for req *request: reqId, cmd, and params unless nil
marshalRequest(req) ==
     <<"{", "\"", "r", "e", "q", "I", "d", "\"", ":">> \o jsonByteSlice(req.ReqID)
  \o <<",", "\"", "c", "m", "d", "\"", ":">> \o jsonString(req.Cmd)
  \o (IF req.Params = Nil THEN <<>> ELSE <<",", "\"", "p", "a", "r", "a", "m", "s", "\"", ":">> \o marshalParams(Deref(req.Params)))
  \o <<"}">>

\* the zero value of Params
ZeroParams ==
  [Category |-> 0, Mode |-> 0, Modifier |-> 0, RobotSounds |-> FALSE, DirtbinAlert |-> FALSE,
   AllAlerts |-> FALSE, Leds |-> FALSE, ButtonClicks |-> FALSE,
   DirtbinAlertReminderInterval |-> 0, FilterChangeReminderInterval |-> 0,
   BrushChangeReminderInterval |-> 0, Clock24H |-> FALSE, Locale |-> <<>>,
   AvailableLocales |-> Nil, NavigationMode |-> 0, BoundaryID |-> <<>>,
   SpotWidth |-> 0, SpotHeight |-> 0, Events |-> Nil]


(***************************************************************************)
(* net/url: url.Values and its Encode, as NewSession and Refresh use it.   *)
(* A url.Values is a function from keys to values, both texts.             *)
(***************************************************************************)
upperhex == <<"0", "1", "2", "3", "4", "5", "6", "7", "8", "9", "A", "B", "C", "D", "E", "F">>

IsUnreserved(c) ==
  LET b == Ord(c)
  IN  \/ b >= 48 /\ b <= 57
      \/ b >= 65 /\ b <= 90
      \/ b >= 97 /\ b <= 122
      \/ c \in {"-", "_", ".", "~"}

\* url.QueryEscape
QueryEscape(s) ==
  Flatten([i \in DOMAIN s |->
     IF IsUnreserved(s[i]) THEN <<s[i]>>
     ELSE IF s[i] = " " THEN <<"+">>
     ELSE <<"%", upperhex[(Ord(s[i]) \div 16) + 1], upperhex[(Ord(s[i]) % 16) + 1]>>])

\* a < b for texts, byte by byte
RECURSIVE TextLess(_, _)
TextLess(a, b) ==
  IF Len(b) = 0 THEN FALSE
  ELSE IF Len(a) = 0 THEN TRUE
  ELSE IF Ord(a[1]) # Ord(b[1]) THEN Ord(a[1]) < Ord(b[1])
  ELSE TextLess(Tail(a), Tail(b))

\* the keys of a url.Values, sorted
RECURSIVE SortedKeys(_)
SortedKeys(keys) ==
  IF keys = {} THEN <<>>
  ELSE LET k == CHOOSE x \in keys : \A y \in keys \ {x} : TextLess(x, y)
       IN  <<k>> \o SortedKeys(keys \ {k})

RECURSIVE JoinAmp(_)
JoinAmp(items) ==
  IF Len(items) = 0 THEN <<>>
  ELSE IF Len(items) = 1 THEN items[1]
  ELSE items[1] \o <<"&">> \o JoinAmp(Tail(items))

\* url.Values.Encode: key=value pairs, escaped, sorted by key, joined by &
Encode(v) ==
  LET ks == SortedKeys(DOMAIN v)
  IN  JoinAmp([i \in DOMAIN ks |-> QueryEscape(ks[i]) \o <<"=">> \o QueryEscape(v[ks[i]])])

(***************************************************************************)
(* beehive.go: tokens, query values, the bearer headers.                   *)
(***************************************************************************)
K_platform == <<"p", "l", "a", "t", "f", "o", "r", "m">>
K_token == <<"t", "o", "k", "e", "n">>
K_email == <<"e", "m", "a", "i", "l">>
K_password == <<"p", "a", "s", "s", "w", "o", "r", "d">>

\* newToken, given the bytes rand.Read wrote into key
newToken(key) == [value |-> hexEncode(key)]

\* token.String
tokenString(t) == String(t.value)

\* a mutant of queryValues: the platform parameter is left out
queryValuesNoPlatform(t, c) ==
  (K_token :> tokenString(t)) @@ (K_email :> c.Username) @@ (K_password :> c.Password)

\* token.queryValues, given the credentials getCredentials returned
queryValues(t, c) ==
  (K_platform :> platform) @@ (K_token :> tokenString(t))
    @@ (K_email :> c.Username) @@ (K_password :> c.Password)

\* a mutant of bearer: the token is sent without the word Bearer
bearerBare(s) == s.AccessToken

\* Session.bearer
bearer(s) == <<"B", "e", "a", "r", "e", "r", " ">> \o s.AccessToken

\* Session.setHeaders: the header of req after the call
setHeaders(s, header) ==
  [header EXCEPT !.Accept = Ptr(beehiveAcceptHeader), !.Authorization = Ptr(bearer(s))]

(***************************************************************************)
(* nucleo.go: request ids, envelopes, the signing string, the signature.   *)
(***************************************************************************)
\* hmac.New(sha256.New, key), Write(msg), Sum(nil): an uninterpreted
\* injective function of the key and the message
HMACSHA256(key, msg) == [hmacKey |-> key, hmacMsg |-> msg]

\* fmt.Sprintf("%x", sum) of a digest: one symbol standing for its hex text
hexDigest(sum) == <<[hex |-> sum]>>

\* time.Time.Format(timeFormat) of the clock reading t, in ticks: the
\* timestamp has the resolution of a second
Format(t) ==
  LET sec == (t \div TicksPerSecond) % 60
  IN  <<"M", "o", "n", ",", " ", "0", "2", " ", "J", "a", "n", " ", "2", "0", "0", "6", " ",
        "1", "5", ":", "0", "4", ":">>
      \o <<Digits[(sec \div 10) + 1], Digits[(sec % 10) + 1]>> \o <<" ", "M", "S", "T">>

\* a mutant of newID: the id is the raw bytes, not their hex text
newIDRaw(raw) == raw

\* newID, given the bytes rand.Read wrote into raw
newID(raw) == hexEncode(raw)

\* newRequest, given the id newID returned
newRequest(id, cmd, p) == [ReqID |-> id, Cmd |-> cmd, Params |-> p]

\* a mutant of signingString: the serial keeps its case
signingStringRawSerial(r, req, ts) ==
  r.Serial \o <<LF>> \o ts \o <<LF>> \o marshalRequest(req)

\* a mutant of signingString: the timestamp is left out
signingStringNoTs(r, req, ts) ==
  ToLower(r.Serial) \o <<LF>> \o <<LF>> \o marshalRequest(req)

\* Robot.signingString
signingString(r, req, ts) ==
  ToLower(r.Serial) \o <<LF>> \o ts \o <<LF>> \o marshalRequest(req)

\* a mutant of sign: the envelope is signed without its parameters
signNoParams(r, req, ts) ==
  HMACSHA256(r.SecretKey, signingString(r, [req EXCEPT !.Params = Nil], ts))

\* Robot.sign
sign(r, req, ts) == HMACSHA256(r.SecretKey, signingString(r, req, ts))

\* a mutant of checkID: the response is returned whatever its id
checkIDAny(resp, a) == [result |-> Ptr(resp), err |-> ""]

\* Response.checkID: the pair (result, err) it returns
checkID(resp, a) ==
  IF String(resp.ReqID) # String(a.ReqID)
    THEN [result |-> Nil, err |-> "conflicting ReqID value"]
    ELSE [result |-> Ptr(resp), err |-> ""]


(***************************************************************************)
(* encoding/json as json.NewDecoder(body).Decode applies it to the         *)
(* responses.  A body is Nil when it is no JSON value, and otherwise holds *)
(* the fields of a JSON object in the order they are written; a field's    *)
(* value is [t |-> "string", v |-> text], [t |-> "time", v |-> instant] (a *)
(* string holding an RFC 3339 time), [t |-> "number", v |-> digits] or     *)
(* [t |-> "null", v |-> <<>>].  An instant is written as a text, the zero  *)
(* time.Time as the text 0.                                                *)
(***************************************************************************)
\* Decode into a *Session: the session after the call and the error.
\* access_token is a string field: a value of another type is recorded as
\* an error and decoding goes on.  current_time is a time.Time, whose
\* UnmarshalJSON fails on anything but a time or null and ends the decoding.
\* The client field is unexported and never written.
RECURSIVE decodeSessionFields(_, _, _)
decodeSessionFields(fields, s, err) ==
  IF fields = <<>> THEN [s |-> s, err |-> err]
  ELSE
    LET f == Head(fields)
    IN  IF f.name = "access_token" THEN
          IF f.val.t = "string"
            THEN decodeSessionFields(Tail(fields), [s EXCEPT !.AccessToken = f.val.v], err)
          ELSE IF f.val.t = "null"
            THEN decodeSessionFields(Tail(fields), s, err)
          ELSE decodeSessionFields(Tail(fields), s, IF err = "" THEN "decode" ELSE err)
        ELSE IF f.name = "current_time" THEN
          IF f.val.t = "time"
            THEN decodeSessionFields(Tail(fields), [s EXCEPT !.CurrentTime = f.val.v], err)
          ELSE IF f.val.t = "null"
            THEN decodeSessionFields(Tail(fields), s, err)
          ELSE [s |-> s, err |-> "decode"]
        ELSE decodeSessionFields(Tail(fields), s, err)

\* a mutant of decodeSession: the error of Decode is dropped
decodeSessionLenient(s, body) ==
  IF body = Nil THEN [s |-> s, err |-> ""]
  ELSE [s |-> decodeSessionFields(Deref(body), s, "").s, err |-> ""]

decodeSession(s, body) ==
  IF body = Nil THEN [s |-> s, err |-> "decode"]
  ELSE decodeSessionFields(Deref(body), s, "")

\* the zero value of Response
ZeroResponse == [ReqID |-> Nil, Result |-> <<>>]

\* Decode into a *Response: reqId is a []byte field, read from a string as
\* base64; result is a string field
RECURSIVE decodeResponseFields(_, _, _)
decodeResponseFields(fields, r, err) ==
  IF fields = <<>> THEN [r |-> r, err |-> err]
  ELSE
    LET f == Head(fields)
        bad == IF err = "" THEN "decode" ELSE err
    IN  IF f.name = "reqId" THEN
          IF f.val.t = "string" /\ base64Valid(f.val.v)
            THEN decodeResponseFields(Tail(fields), [r EXCEPT !.ReqID = base64Decode(f.val.v)], err)
          ELSE IF f.val.t = "null"
            THEN decodeResponseFields(Tail(fields), [r EXCEPT !.ReqID = Nil], err)
          ELSE decodeResponseFields(Tail(fields), r, bad)
        ELSE IF f.name = "result" THEN
          IF f.val.t = "string"
            THEN decodeResponseFields(Tail(fields), [r EXCEPT !.Result = f.val.v], err)
          ELSE IF f.val.t = "null"
            THEN decodeResponseFields(Tail(fields), r, err)
          ELSE decodeResponseFields(Tail(fields), r, bad)
        ELSE decodeResponseFields(Tail(fields), r, err)

decodeResponse(body) ==
  IF body = Nil THEN [r |-> ZeroResponse, err |-> "decode"]
  ELSE decodeResponseFields(Deref(body), ZeroResponse, "")

(***************************************************************************)
(* The inputs of the model.                                                *)
(***************************************************************************)
Calls == 1..MaxCalls

Robots ==
  { [Serial |-> <<"O", "P", "S", "1", "-", "A", "b">>, SecretKey |-> <<"k", "1">>],
    [Serial |-> <<"o", "p", "s", "2">>, SecretKey |-> <<"K", "2">>] }

\* two of the command names of nucleo.go; the wrappers differ in the name only
Commands ==
  { <<"f", "i", "n", "d", "M", "e">>,
    <<"s", "t", "a", "r", "t", "C", "l", "e", "a", "n", "i", "n", "g">> }

ParamsChoices ==
  { Nil, Ptr([ZeroParams EXCEPT !.Category = 2, !.Mode = 1, !.NavigationMode = 1]) }

\* what rand.Read leaves in a buffer of n bytes
RandBytes(n, seed) == [i \in 1..n |-> (seed * 101 + i * 59) % 256]

\* the outcomes of rand.Read on n bytes: Nil is its error
RandOutcomes(n) == {Nil} \cup {Ptr(RandBytes(n, seed)) : seed \in 0..MaxSeed}

\* the outcomes of getCredentials: Nil is its error
CredOutcomes ==
  { Nil,
    Ptr([Username |-> <<"a", "@", "b", ".", "c", "o", "m">>,
         Password |-> <<"s", "e", "c", "r", "e", "t">>]),
    Ptr([Username |-> <<"u", " ", "s">>, Password |-> <<"p", "&", "=", "1">>]) }

\* the access tokens the server issues
T1 == <<"t", "o", "k", "1">>
T2 == <<"t", "o", "k", "2">>

JString(v) == [t |-> "string", v |-> v]
JTime(v) == [t |-> "time", v |-> v]
JNumber(v) == [t |-> "number", v |-> v]
JField(n, v) == [name |-> n, val |-> v]

\* what the server may answer to a session-creation request: Nil is a
\* transport error, and a reply holds the body
SessionReplies ==
  { Nil,
    Ptr([body |-> Nil]),
    Ptr([body |-> Ptr(<<JField("access_token", JString(T1)), JField("current_time", JTime(<<"1">>))>>)]),
    Ptr([body |-> Ptr(<<JField("access_token", JString(T2)), JField("current_time", JTime(<<"2">>))>>)]),
    Ptr([body |-> Ptr(<<JField("message", JString(<<"n", "o">>))>>)]),
    Ptr([body |-> Ptr(<<JField("access_token", JString(T2)), JField("current_time", JString(<<"x">>))>>)]),
    Ptr([body |-> Ptr(<<JField("access_token", JNumber(<<"5">>)), JField("current_time", JTime(<<"2">>))>>)]) }

\* what the server may answer to a data request
DataReplies ==
  { Nil, Ptr([body |-> Nil]), Ptr([body |-> Ptr(<<JField("id", JString(<<"1">>))>>)]) }

\* the text of the reqId member of a request body written by marshalRequest
RECURSIVE UpToQuote(_)
UpToQuote(s) == IF s = <<>> \/ Head(s) = "\"" THEN <<>> ELSE <<Head(s)>> \o UpToQuote(Tail(s))
bodyReqId(body) == UpToQuote(SubSeq(body, 11, Len(body)))

(***************************************************************************)
(* The state.                                                              *)
(***************************************************************************)
VARIABLES
  now,           \* the clock, in ticks
  calls,         \* the caller's call slots: the operation in progress in each
  session,       \* the Session the caller holds: Nil, or Ptr of its fields
  sessionsMade,  \* the number of calls of NewSession so far
  probe          \* two inputs of signingString and its results (SpecSign)

vars == <<now, calls, session, sessionsMade, probe>>

EmptyHeader == [Accept |-> Nil, Date |-> Nil, Authorization |-> Nil]

\* a call slot: op is the operation, pc its position, robot and req the
\* receiver and envelope of a command, ts the timestamp of addHeaders,
\* http the request handed to client.Do, result and err what the call
\* returns.  History of the call, which the code does not keep: args the
\* arguments of a command, rand the bytes rand.Read gave the call, cred
\* what getCredentials returned, reply the reply client.Do returned, resp
\* the Response decoded from it, sends the number of requests issued
IdleCall ==
  [op |-> "none", pc |-> "idle", robot |-> Nil, req |-> Nil, ts |-> Nil,
   http |-> Nil, result |-> Nil, err |-> "",
   args |-> Nil, rand |-> Nil, cred |-> Nil, reply |-> Nil, resp |-> Nil, sends |-> 0]

Init ==
  /\ now = 0
  /\ calls = [c \in Calls |-> IdleCall]
  /\ session = Nil
  /\ sessionsMade = 0
  /\ probe = Nil

\* the caller makes one call at a time
AllIdle == \A d \in Calls : calls[d].pc = "idle"

\* a call that returns (nil, err) or err
Failed(cl, e) == [cl EXCEPT !.pc = "done", !.result = Nil, !.err = e]

\* a mutant of doFailed: the request is issued again
doFailedRetry(cl, e) == [cl EXCEPT !.sends = @ + 1]

\* client.Do returned an error: the call returns it
doFailed(cl, e) == Failed(cl, e)

\* time passes
Tick ==
  /\ now < MaxTime
  /\ now' = now + 1
  /\ UNCHANGED <<calls, session, sessionsMade, probe>>

\* the caller takes the result of a call that has returned
Return(c) ==
  /\ calls[c].pc = "done"
  /\ calls' = [calls EXCEPT ![c] = IdleCall]
  /\ UNCHANGED <<now, session, sessionsMade, probe>>


(***************************************************************************)
(* nucleo.go: a command of a Robot, from its wrapper (FindMe, ...) through *)
(* newRequest and Robot.exec.                                              *)
(***************************************************************************)
NEATOAPP == <<"N", "E", "A", "T", "O", "A", "P", "P", " ">>

\* a mutant of authorization: the clock is read again for the signature
authorizationNow(req, o, header, ts) ==
  [header EXCEPT !.Authorization = Ptr(NEATOAPP \o hexDigest(sign(o, req, Format(now))))]

\* request.authorization: the header of the HTTP request after the call
authorization(req, o, header, ts) ==
  [header EXCEPT !.Authorization = Ptr(NEATOAPP \o hexDigest(sign(o, req, ts)))]

\* request.addHeaders after its first line, ts being the timestamp taken
addHeaders(req, header, o, ts) ==
  authorization(req, o, [header EXCEPT !.Accept = Ptr(nucleoAcceptHeader), !.Date = Ptr(ts)], ts)

\* the path of a command: path.Join("vendors/neato/robots", serial, "messages")
nucleoPath(r) == <<"vendors/neato/robots", r.Serial, "messages">>

\* a wrapper such as Robot.FindMe up to the first line of addHeaders:
\* newRequest, then in Robot.exec json.Marshal and http.NewRequest
commandCall(r, cmd, p, rnd) ==
  IF rnd = Nil
    THEN Failed([IdleCall EXCEPT !.op = "Robot", !.robot = Ptr(r),
                                 !.args = Ptr([cmd |-> cmd, p |-> p])], "rand")
    ELSE LET a == newRequest(newID(Deref(rnd)), cmd, p)
         IN  [IdleCall EXCEPT
                !.op = "Robot", !.pc = "exec", !.robot = Ptr(r), !.rand = rnd,
                !.args = Ptr([cmd |-> cmd, p |-> p]),
                !.req = Ptr(a),
                !.http = Ptr([method |-> "POST", scheme |-> scheme, host |-> nucleoHost,
                              path |-> nucleoPath(r), query |-> Nil,
                              header |-> EmptyHeader, body |-> Ptr(marshalRequest(a)),
                              client |-> Nil])]

\* a command of the caller who makes one call at a time
RobotCommand(c, r, cmd, p, rnd) ==
  /\ AllIdle
  /\ calls' = [calls EXCEPT ![c] = commandCall(r, cmd, p, rnd)]
  /\ UNCHANGED <<now, session, sessionsMade, probe>>

\* the first line of addHeaders: ts := time.Now().Format(timeFormat)
TimeNow(c) ==
  /\ calls[c].pc = "exec"
  /\ calls' = [calls EXCEPT ![c].pc = "stamped", ![c].ts = Ptr(Format(now))]
  /\ UNCHANGED <<now, session, sessionsMade, probe>>

\* the rest of addHeaders, and client.Do on a new http.Client
SendCommand(c) ==
  /\ calls[c].pc = "stamped"
  /\ LET cl == calls[c]
         h == Deref(cl.http)
     IN  calls' = [calls EXCEPT ![c] =
           [cl EXCEPT !.pc = "sent", !.sends = @ + 1,
                      !.http = Ptr([h EXCEPT
                         !.header = addHeaders(Deref(cl.req), h.header, Deref(cl.robot), Deref(cl.ts)),
                         !.client = Ptr(<<"local", c>>)])]]
  /\ UNCHANGED <<now, session, sessionsMade, probe>>

\* what the server may answer to the command of call cl: its reqId echoed as
\* the body wrote it, the id of another command, the hex text of the id,
\* no reqId, a reqId that is no base64, no JSON at all; Nil is a transport
\* error
NucleoReplies(cl) ==
  LET ok == JField("result", JString(<<"o", "k">>))
      h == Deref(cl.http)
  IN  { Nil,
        Ptr([body |-> Nil]),
        Ptr([body |-> Ptr(<<JField("version", JNumber(<<"1">>)),
                            JField("reqId", JString(bodyReqId(Deref(h.body)))), ok>>)]),
        Ptr([body |-> Ptr(<<JField("reqId",
                               JString(base64Encode(newID(RandBytes(idLength, MaxSeed + 1))))), ok>>)]),
        Ptr([body |-> Ptr(<<JField("reqId", JString(String(Deref(cl.req).ReqID))), ok>>)]),
        Ptr([body |-> Ptr(<<ok>>)]),
        Ptr([body |-> Ptr(<<JField("reqId", JString(<<"!", "!", "!", "!">>)), ok>>)]) }

\* Robot.exec from the return of client.Do: the error of Do, or the error
\* of Decode, or what checkID returns
execReturn(cl, reply) ==
  IF reply = Nil THEN doFailed(cl, "transport")
  ELSE LET d == decodeResponse(Deref(reply).body)
       IN  IF d.err # "" THEN Failed([cl EXCEPT !.reply = reply], d.err)
           ELSE LET k == checkID(d.r, Deref(cl.req))
                IN  [cl EXCEPT !.pc = "done", !.result = k.result, !.err = k.err,
                               !.reply = reply, !.resp = Ptr(d.r)]

ReceiveCommand(c) ==
  /\ calls[c].pc = "sent"
  /\ calls[c].op = "Robot"
  /\ \E reply \in NucleoReplies(calls[c]) :
        calls' = [calls EXCEPT ![c] = execReturn(calls[c], reply)]
  /\ UNCHANGED <<now, session, sessionsMade, probe>>

(***************************************************************************)
(* beehive.go: NewSession, Session.Refresh and the data calls.             *)
(***************************************************************************)
\* the session-creation request of NewSession and Refresh, sent by client
sessionRequest(t, cred, client) ==
  [method |-> "POST", scheme |-> scheme, host |-> beehiveHost, path |-> <<"sessions">>,
   query |-> Ptr(Encode(queryValues(t, cred))),
   header |-> [EmptyHeader EXCEPT !.Accept = Ptr(nucleoAcceptHeader)],
   body |-> Nil, client |-> Ptr(client)]

\* newToken, queryValues, http.NewRequest and client.Do, as NewSession and
\* Refresh both run them
createSession(cl, rnd, cred, client) ==
  IF rnd = Nil THEN Failed(cl, "rand")
  ELSE IF cred = Nil THEN Failed([cl EXCEPT !.rand = rnd], "credentials")
  ELSE [cl EXCEPT !.pc = "sent", !.rand = rnd, !.cred = cred, !.sends = @ + 1,
                  !.http = Ptr(sessionRequest(newToken(Deref(rnd)), Deref(cred), client))]

\* NewSession up to client.Do, on a new http.Client
NewSession(c, rnd, cred) ==
  /\ AllIdle
  /\ sessionsMade < MaxSessions
  /\ sessionsMade' = sessionsMade + 1
  /\ calls' = [calls EXCEPT ![c] =
       createSession([IdleCall EXCEPT !.op = "NewSession"], rnd, cred, <<"local", c>>)]
  /\ UNCHANGED <<now, session, probe>>

\* NewSession from the return of client.Do: the result is a new Session,
\* whose client is its own zero http.Client
NewSessionReturn(c, reply) ==
  /\ calls[c].pc = "sent"
  /\ calls[c].op = "NewSession"
  /\ IF reply = Nil
       THEN /\ calls' = [calls EXCEPT ![c] = doFailed(calls[c], "transport")]
            /\ UNCHANGED session
       ELSE LET zero == [AccessToken |-> <<>>, CurrentTime |-> <<"0">>,
                         client |-> <<"session", sessionsMade>>]
                d == decodeSession(zero, Deref(reply).body)
            IN  IF d.err # ""
                  THEN /\ calls' = [calls EXCEPT ![c] =
                                     Failed([calls[c] EXCEPT !.reply = reply], d.err)]
                       /\ UNCHANGED session
                  ELSE /\ calls' = [calls EXCEPT ![c].pc = "done", ![c].result = Ptr(d.s),
                                                 ![c].reply = reply]
                       /\ session' = Ptr(d.s)
  /\ UNCHANGED <<now, sessionsMade, probe>>

\* Session.Refresh up to s.client.Do
Refresh(c, rnd, cred) ==
  /\ AllIdle
  /\ session # Nil
  /\ calls' = [calls EXCEPT ![c] =
       createSession([IdleCall EXCEPT !.op = "Refresh"], rnd, cred, Deref(session).client)]
  /\ UNCHANGED <<now, session, sessionsMade, probe>>

\* a mutant of refreshDecode: the body is decoded into a new Session, which
\* then replaces the old one
refreshDecodeFresh(s, body) ==
  decodeSession([AccessToken |-> <<>>, CurrentTime |-> <<"0">>, client |-> <<"session", 0>>], body)

\* json.NewDecoder(resp.Body).Decode(s) in Refresh: the body is decoded
\* into the Session itself
refreshDecode(s, body) == decodeSession(s, body)

\* Session.Refresh from the return of s.client.Do
RefreshReturn(c, reply) ==
  /\ calls[c].pc = "sent"
  /\ calls[c].op = "Refresh"
  /\ IF reply = Nil
       THEN /\ calls' = [calls EXCEPT ![c] = doFailed(calls[c], "transport")]
            /\ UNCHANGED session
       ELSE LET d == refreshDecode(Deref(session), Deref(reply).body)
            IN  /\ calls' = [calls EXCEPT ![c].pc = "done", ![c].err = d.err,
                                           ![c].reply = reply]
                /\ session' = Ptr(d.s)
  /\ UNCHANGED <<now, sessionsMade, probe>>

\* Session.exec: http.NewRequest, setHeaders and s.client.Do
sessionExec(cl, s, method, path) ==
  [cl EXCEPT !.pc = "sent", !.sends = @ + 1,
             !.http = Ptr([method |-> method, scheme |-> scheme, host |-> beehiveHost,
                           path |-> path, query |-> Nil,
                           header |-> setHeaders(s, EmptyHeader),
                           body |-> Nil, client |-> Ptr(s.client)])]

\* a data call up to the return of s.exec's client.Do
dataCall(op, s, path) == sessionExec([IdleCall EXCEPT !.op = op], s, "GET", path)

\* the robot serials and map ids the data calls are given
SerialArgs == {r.Serial : r \in Robots}
MapIds == {<<"m", "1">>}

GetRobotMap(c, robot, id) ==
  /\ AllIdle
  /\ session # Nil
  /\ calls' = [calls EXCEPT ![c] =
       dataCall("GetRobotMap", Deref(session), <<"users/me/robots", robot, "maps", id>>)]
  /\ UNCHANGED <<now, session, sessionsMade, probe>>

GetUser(c) ==
  /\ AllIdle
  /\ session # Nil
  /\ calls' = [calls EXCEPT ![c] = dataCall("GetUser", Deref(session), <<"users/me">>)]
  /\ UNCHANGED <<now, session, sessionsMade, probe>>

ListRobots(c) ==
  /\ AllIdle
  /\ session # Nil
  /\ calls' = [calls EXCEPT ![c] = dataCall("ListRobots", Deref(session), <<"users/me/robots">>)]
  /\ UNCHANGED <<now, session, sessionsMade, probe>>

ListRobotMaps(c, robot) ==
  /\ AllIdle
  /\ session # Nil
  /\ calls' = [calls EXCEPT ![c] =
       dataCall("ListRobotMaps", Deref(session), <<"users/me/robots", robot, "maps">>)]
  /\ UNCHANGED <<now, session, sessionsMade, probe>>

ListRobotPersistentMaps(c, robot) ==
  /\ AllIdle
  /\ session # Nil
  /\ calls' = [calls EXCEPT ![c] =
       dataCall("ListRobotPersistentMaps", Deref(session),
                <<"users/me/robots", robot, "persistent_maps">>)]
  /\ UNCHANGED <<now, session, sessionsMade, probe>>

DataOps == {"GetRobotMap", "GetUser", "ListRobots", "ListRobotMaps", "ListRobotPersistentMaps"}

\* a data call from the return of s.exec: the error of Do, or the error of
\* Decode, or the decoded value
DataReturn(c, reply) ==
  /\ calls[c].pc = "sent"
  /\ calls[c].op \in DataOps
  /\ calls' = [calls EXCEPT ![c] =
       IF reply = Nil THEN doFailed(calls[c], "transport")
       ELSE IF Deref(reply).body = Nil THEN Failed([calls[c] EXCEPT !.reply = reply], "decode")
       ELSE [calls[c] EXCEPT !.pc = "done", !.result = Ptr(Deref(Deref(reply).body)),
                             !.reply = reply]]
  /\ UNCHANGED <<now, session, sessionsMade, probe>>

Next ==
  \/ Tick
  \/ \E c \in Calls : Return(c)
  \/ \E c \in Calls, r \in Robots, cmd \in Commands, p \in ParamsChoices,
        rnd \in RandOutcomes(idLength) : RobotCommand(c, r, cmd, p, rnd)
  \/ \E c \in Calls : TimeNow(c)
  \/ \E c \in Calls : SendCommand(c)
  \/ \E c \in Calls : ReceiveCommand(c)
  \/ \E c \in Calls, rnd \in RandOutcomes(tokenLength), cred \in CredOutcomes :
        NewSession(c, rnd, cred)
  \/ \E c \in Calls, reply \in SessionReplies : NewSessionReturn(c, reply)
  \/ \E c \in Calls, rnd \in RandOutcomes(tokenLength), cred \in CredOutcomes :
        Refresh(c, rnd, cred)
  \/ \E c \in Calls, reply \in SessionReplies : RefreshReturn(c, reply)
  \/ \E c \in Calls, robot \in SerialArgs, id \in MapIds : GetRobotMap(c, robot, id)
  \/ \E c \in Calls : GetUser(c)
  \/ \E c \in Calls : ListRobots(c)
  \/ \E c \in Calls, robot \in SerialArgs : ListRobotMaps(c, robot)
  \/ \E c \in Calls, robot \in SerialArgs : ListRobotPersistentMaps(c, robot)
  \/ \E c \in Calls, reply \in DataReplies : DataReturn(c, reply)

Spec == Init /\ [][Next]_vars
(***************************************************************************)
(* Commands of several goroutines (SpecConc): a caller starts a command    *)
(* while another is in progress, on the same robot or on another, and the  *)
(* server may answer a command with the reqId of another one.  The caller  *)
(* of this specification has at most two commands in progress at a time.   *)
(***************************************************************************)
\* the commands the goroutines run: robot, command name and parameters
ConcCommands ==
  { <<r, <<"f", "i", "n", "d", "M", "e">>, Nil>> :
      r \in {x \in Robots : ToLower(x.Serial) # x.Serial} }
  \cup
  { <<r, <<"s", "t", "a", "r", "t", "C", "l", "e", "a", "n", "i", "n", "g">>,
      Ptr([ZeroParams EXCEPT !.Category = 2, !.Mode = 1, !.NavigationMode = 1])>> :
      r \in {x \in Robots : ToLower(x.Serial) = x.Serial} }

\* the other calls that have not yet been returned to the caller
Others(c) == {d \in Calls \ {c} : calls[d].pc # "idle"}

\* a wrapper such as Robot.FindMe, started while other commands run
ConcCommand(c, in, rnd) ==
  /\ calls[c].pc = "idle"
  /\ Cardinality(Others(c)) <= 1
  /\ calls' = [calls EXCEPT ![c] = commandCall(in[1], in[2], in[3], rnd)]
  /\ UNCHANGED <<now, session, sessionsMade, probe>>

\* what the server may answer to call c, the replies meant for the other
\* commands in progress among them
ConcReplies(c) ==
  { Nil,
    Ptr([body |-> Ptr(<<JField("reqId", JString(bodyReqId(Deref(Deref(calls[c].http).body)))),
                        JField("result", JString(<<"o", "k">>))>>)]) }
  \cup
  { Ptr([body |-> Ptr(<<JField("reqId", JString(bodyReqId(Deref(Deref(calls[d].http).body)))),
                        JField("result", JString(<<"o", "k">>))>>)]) :
      d \in {e \in Others(c) : calls[e].http # Nil} }

\* a mutant of execArgs: the envelope is kept in a variable of the package,
\* which holds the envelope of the command started last
execArgsShared(c) ==
  LET live == {d \in Calls : calls[d].req # Nil}
      last == CHOOSE d \in live : \A e \in live : e <= d
  IN  [calls[c] EXCEPT !.req = calls[last].req]

\* the receiver r and the parameter a of this call of Robot.exec, and its
\* locals
execArgs(c) == calls[c]

\* Robot.exec of one goroutine from the return of client.Do
ConcReceive(c) ==
  /\ calls[c].pc = "sent"
  /\ calls[c].op = "Robot"
  /\ \E reply \in ConcReplies(c) :
        calls' = [calls EXCEPT ![c] = execReturn(execArgs(c), reply)]
  /\ UNCHANGED <<now, session, sessionsMade, probe>>

NextConc ==
  \/ Tick
  \/ \E c \in Calls : Return(c)
  \/ \E c \in Calls, in \in ConcCommands, rnd \in RandOutcomes(idLength) :
        ConcCommand(c, in, rnd)
  \/ \E c \in Calls : TimeNow(c)
  \/ \E c \in Calls : SendCommand(c)
  \/ \E c \in Calls : ConcReceive(c)

SpecConc == Init /\ [][NextConc]_vars

(***************************************************************************)
(* The signing string as a function of its inputs (SpecSign): the state    *)
(* holds two inputs, b being a with at most one of serial, timestamp,      *)
(* reqId, cmd and params changed, and the action signs both.               *)
(***************************************************************************)
SignSerials ==
  { <<"O", "P", "S", "1", "-", "A", "b">>, <<"o", "p", "s", "1", "-", "a", "b">>,
    <<"O", "P", "S", "2">> }

SignParams ==
  ParamsChoices \cup {Ptr(ZeroParams), Ptr([ZeroParams EXCEPT !.Locale = <<"e", "n">>])}

SignInputs ==
  [serial : SignSerials,
   ts : {Format(t) : t \in 0..MaxTime},
   reqId : {newID(RandBytes(idLength, seed)) : seed \in 0..MaxSeed},
   cmd : Commands,
   params : SignParams]

\* the inputs that differ from a in at most one component
Variants(a) ==
  {a}
  \cup {[a EXCEPT !.serial = v] : v \in SignSerials}
  \cup {[a EXCEPT !.ts = v] : v \in {Format(t) : t \in 0..MaxTime}}
  \cup {[a EXCEPT !.reqId = v] : v \in {newID(RandBytes(idLength, seed)) : seed \in 0..MaxSeed}}
  \cup {[a EXCEPT !.cmd = v] : v \in Commands}
  \cup {[a EXCEPT !.params = v] : v \in SignParams}

\* signingString on the input i, for a robot of that serial
signInput(i) ==
  signingString([Serial |-> i.serial, SecretKey |-> <<"k">>],
                [ReqID |-> i.reqId, Cmd |-> i.cmd, Params |-> i.params], i.ts)

InitSign ==
  /\ now = 0
  /\ calls = [c \in Calls |-> IdleCall]
  /\ session = Nil
  /\ sessionsMade = 0
  /\ \E a \in SignInputs : \E b \in Variants(a) :
       probe = Ptr([a |-> a, b |-> b, sa |-> Nil, sb |-> Nil])

SignBoth ==
  /\ probe # Nil
  /\ Deref(probe).sa = Nil
  /\ probe' = Ptr([Deref(probe) EXCEPT !.sa = Ptr(signInput(Deref(probe).a)),
                                       !.sb = Ptr(signInput(Deref(probe).b))])
  /\ UNCHANGED <<now, calls, session, sessionsMade>>

NextSign == SignBoth

SpecSign == InitSign /\ [][NextSign]_vars

(***************************************************************************)
(* What the claims are stated with.                                        *)
(***************************************************************************)
RobotCalls == {c \in Calls : calls[c].op = "Robot"}
SessionCalls == {c \in Calls : calls[c].op \in {"NewSession", "Refresh"}}
DataCalls == {c \in Calls : calls[c].op \in DataOps}

\* the calls whose request has been handed to client.Do
Sent(cs) == {c \in cs : calls[c].sends > 0}

\* the pieces of a text between the occurrences of sep
RECURSIVE SplitOn(_, _)
SplitOn(s, sep) ==
  IF \A i \in DOMAIN s : s[i] # sep THEN <<s>>
  ELSE LET k == CHOOSE i \in DOMAIN s : s[i] = sep /\ \A j \in 1..(i - 1) : s[j] # sep
       IN  <<SubSeq(s, 1, k - 1)>> \o SplitOn(SubSeq(s, k + 1, Len(s)), sep)

HexDigitValue(c) ==
  CASE c \in {"0", "1", "2", "3", "4", "5", "6", "7", "8", "9"} -> Ord(c) - 48
    [] c \in {"a", "b", "c", "d", "e", "f"} -> Ord(c) - 87
    [] c \in {"A", "B", "C", "D", "E", "F"} -> Ord(c) - 55

IsLowerHexText(s) ==
  \A i \in DOMAIN s :
    s[i] \in {"0", "1", "2", "3", "4", "5", "6", "7", "8", "9", "a", "b", "c", "d", "e", "f"}

\* s is the lower-case hex text of the bytes raw
IsHexOf(s, raw) ==
  /\ IsLowerHexText(s)
  /\ Len(s) = 2 * Len(raw)
  /\ \A i \in DOMAIN raw : 16 * HexDigitValue(s[2 * i - 1]) + HexDigitValue(s[2 * i]) = raw[i]

\* url.QueryUnescape
RECURSIVE QueryUnescape(_)
QueryUnescape(s) ==
  IF s = <<>> THEN <<>>
  ELSE IF s[1] = "%" THEN
    <<Chr(16 * HexDigitValue(s[2]) + HexDigitValue(s[3]))>> \o QueryUnescape(SubSeq(s, 4, Len(s)))
  ELSE IF s[1] = "+" THEN <<" ">> \o QueryUnescape(Tail(s))
  ELSE <<s[1]>> \o QueryUnescape(Tail(s))

\* url.ParseQuery: the (key, value) pairs of a raw query, as the server
\* reads them
ParseQuery(q) ==
  LET parts == SplitOn(q, "&")
  IN  { LET kv == SplitOn(parts[i], "=")
        IN  <<QueryUnescape(kv[1]),
              QueryUnescape(IF Len(kv) > 1 THEN SubSeq(parts[i], Len(kv[1]) + 2, Len(parts[i])) ELSE <<>>)>>
        : i \in DOMAIN parts }

\* the message under the signature of an Authorization header
SignedMessage(h) == Deref(h.Authorization)[Len(NEATOAPP) + 1].hex.hmacMsg

\* the last value a body gives the member name, if it is of type t
Given(body, name, t) ==
  LET fs == Deref(body)
      at == {i \in DOMAIN fs : fs[i].name = name /\ fs[i].val.t = t}
  IN  IF body = Nil \/ at = {} THEN Nil
      ELSE Ptr(fs[CHOOSE i \in at : \A j \in at : j <= i].val.v)

(***************************************************************************)
(* The claims.                                                             *)
(***************************************************************************)

\* C1: Robot.exec returns the decoded response and no error when the
\* response's reqId equals the envelope's, and an error and a nil response
\* when it differs.
C1_ExecChecksReqId ==
  \A c \in RobotCalls :
    (calls[c].pc = "done" /\ calls[c].resp # Nil) =>
      IF Deref(calls[c].resp).ReqID = Deref(calls[c].req).ReqID
        THEN calls[c].err = "" /\ calls[c].result = calls[c].resp
        ELSE calls[c].err # "" /\ calls[c].result = Nil

\* a command has returned an error on a decoded response with another reqId
C1_Witness ==
  \E c \in RobotCalls :
    /\ calls[c].pc = "done" /\ calls[c].resp # Nil
    /\ Deref(calls[c].resp).ReqID # Deref(calls[c].req).ReqID
    /\ Deref(calls[c].resp).ReqID # Nil
    /\ calls[c].err = "conflicting ReqID value" /\ calls[c].result = Nil

\* C2: the Date header of every Nucleo request is the one timestamp taken
\* in addHeaders, and it is the timestamp inside the signing string that
\* the Authorization header signs.
C2_DateIsSignedTimestamp ==
  \A c \in Sent(RobotCalls) :
    LET h == Deref(calls[c].http).header
    IN  /\ h.Date = calls[c].ts
        /\ SplitOn(SignedMessage(h), LF)[2] = Deref(h.Date)

\* a request was sent after the clock had moved on to another second
C2_Witness ==
  \E c \in Sent(RobotCalls) :
    /\ calls[c].pc = "sent"
    /\ Format(now) # Deref(Deref(calls[c].http).header.Date)

\* C3: the Authorization header of a Nucleo request is NEATOAPP and the hex
\* text of HMAC-SHA256, keyed with the robot's secretKey, over
\* lowercase(serial), a line feed, the timestamp, a line feed and the JSON
\* of the envelope.
C3_AuthorizationIsHmacOfSigningString ==
  \A c \in Sent(RobotCalls) :
    LET r == Deref(calls[c].robot)
        ref == ToLower(r.Serial) \o <<LF>> \o Deref(calls[c].ts) \o <<LF>>
               \o marshalRequest(Deref(calls[c].req))
    IN  Deref(calls[c].http).header.Authorization
          = Ptr(NEATOAPP \o hexDigest(HMACSHA256(r.SecretKey, ref)))

\* a request of a robot whose serial has upper-case letters has been signed
C3_Witness ==
  \E c \in Sent(RobotCalls) :
    /\ ToLower(Deref(calls[c].robot).Serial) # Deref(calls[c].robot).Serial
    /\ Deref(calls[c].req).Params # Nil

\* C4 as claimed: identical inputs give identical signing strings, and a
\* change of any one input (the case of the serial, the timestamp, reqId,
\* cmd or params) gives a different signing string.
C4_AnyChangeChangesSigningString ==
  (probe # Nil /\ Deref(probe).sa # Nil) =>
    LET q == Deref(probe)
    IN  /\ q.a = q.b => q.sa = q.sb
        /\ q.a # q.b => q.sa # q.sb

\* C4 as amended: identical inputs give identical signing strings; a change
\* of the timestamp, reqId, cmd or params alone gives a different signing
\* string; a change of the serial alone gives a different signing string
\* exactly when the two serials differ by more than the case of letters.
C4_ChangeButSerialCaseChangesSigningString ==
  (probe # Nil /\ Deref(probe).sa # Nil) =>
    LET q == Deref(probe)
    IN  /\ q.a = q.b => q.sa = q.sb
        /\ (q.a # q.b /\ q.a.serial = q.b.serial) => q.sa # q.sb
        /\ q.a.serial # q.b.serial =>
             (q.sa = q.sb <=> ToLower(q.a.serial) = ToLower(q.b.serial))

\* two serials that differ in case only have been signed, to the same string
C4_Witness ==
  /\ probe # Nil /\ Deref(probe).sa # Nil
  /\ Deref(probe).a.serial # Deref(probe).b.serial
  /\ Deref(probe).sa = Deref(probe).sb

\* C5: a Refresh that succeeds sent its request through the session's
\* client, leaves that client in place, and overwrites accessToken and
\* issuedAt of the same Session with the values the response gives them.
C5_RefreshInPlace ==
  [][\A c \in Calls :
       (/\ calls[c].op = "Refresh" /\ calls[c].pc = "sent"
        /\ calls'[c].pc = "done" /\ calls'[c].err = "") =>
         LET body == Deref(calls'[c].reply).body
             tok == Given(body, "access_token", "string")
             time == Given(body, "current_time", "time")
             old == Deref(session)
             new == Deref(session')
         IN  /\ session # Nil /\ session' # Nil
             /\ Deref(calls[c].http).client = Ptr(old.client)
             /\ new.client = old.client
             /\ new.AccessToken = IF tok = Nil THEN old.AccessToken ELSE Deref(tok)
             /\ new.CurrentTime = IF time = Nil THEN old.CurrentTime ELSE Deref(time)]_vars

\* a Refresh has succeeded on the first session with the second token
C5_Witness ==
  \E c \in Calls :
    /\ calls[c].op = "Refresh" /\ calls[c].pc = "done" /\ calls[c].err = ""
    /\ Given(Deref(calls[c].reply).body, "access_token", "string") = Ptr(T2)
    /\ sessionsMade = 1
    /\ session = Ptr([AccessToken |-> T2, CurrentTime |-> <<"2">>, client |-> <<"session", 1>>])

C7_SessionQueryParameters ==
  \A c \in Sent(SessionCalls) :
    LET raw == Deref(Deref(calls[c].http).query)
        q == ParseQuery(raw)
        cred == Deref(calls[c].cred)
        tokens == {kv[2] : kv \in {x \in q : x[1] = <<"t", "o", "k", "e", "n">>}}
    IN  /\ Len(SplitOn(raw, "&")) = 4
        /\ Cardinality(q) = 4
        /\ <<<<"p", "l", "a", "t", "f", "o", "r", "m">>, <<"i", "o", "s">>>> \in q
        /\ <<<<"e", "m", "a", "i", "l">>, cred.Username>> \in q
        /\ <<<<"p", "a", "s", "s", "w", "o", "r", "d">>, cred.Password>> \in q
        /\ \E t \in tokens : Len(t) = 64 /\ IsHexOf(t, Deref(calls[c].rand))

\* a Refresh has sent its request with credentials that need escaping
C7_Witness ==
  \E c \in Sent(SessionCalls) :
    /\ calls[c].op = "Refresh"
    /\ Deref(calls[c].cred).Password = <<"p", "&", "=", "1">>

\* C8 as claimed: the body of every Nucleo request carries reqId as the 32
\* hex characters of the 16 random bytes of the command, and so does the
\* envelope inside the signing string.
C8_BodyReqIdIsHexText ==
  \A c \in Sent(RobotCalls) :
    LET h == Deref(calls[c].http)
        id == bodyReqId(Deref(h.body))
    IN  /\ Len(id) = 32
        /\ IsHexOf(id, Deref(calls[c].rand))
        /\ bodyReqId(SplitOn(SignedMessage(h.header), LF)[3]) = id

\* C9: newRequest returns an envelope with a new id of 32 lower-case hex
\* characters, the hex text of 16 random bytes, the command name and the
\* parameters given; it fails exactly when the random source fails, and
\* then there is no envelope and no request.  A token is 64 lower-case hex
\* characters, the hex text of 32 random bytes.
C9_NewRequestAndNewToken ==
  /\ \A c \in RobotCalls :
       IF calls[c].rand = Nil
         THEN /\ calls[c].pc = "done" /\ calls[c].err # "" /\ calls[c].result = Nil
              /\ calls[c].req = Nil /\ calls[c].http = Nil /\ calls[c].sends = 0
         ELSE LET a == Deref(calls[c].req)
                  id == String(a.ReqID)
              IN  /\ calls[c].req # Nil
                  /\ Len(Deref(calls[c].rand)) = 16
                  /\ Len(id) = 32 /\ IsHexOf(id, Deref(calls[c].rand))
                  /\ a.Cmd = Deref(calls[c].args).cmd
                  /\ a.Params = Deref(calls[c].args).p
                  /\ DOMAIN a = {"ReqID", "Cmd", "Params"}
                  /\ calls[c].err # "rand"
  /\ \A c \in Sent(SessionCalls) :
       \E kv \in ParseQuery(Deref(Deref(calls[c].http).query)) :
         /\ kv[1] = <<"t", "o", "k", "e", "n">>
         /\ Len(Deref(calls[c].rand)) = 32
         /\ Len(kv[2]) = 64 /\ IsHexOf(kv[2], Deref(calls[c].rand))

\* a command with parameters has its envelope, and its request is sent
C9_Witness ==
  \E c \in Sent(RobotCalls) :
    /\ Deref(calls[c].args).p # Nil
    /\ Deref(calls[c].req).Params = Deref(calls[c].args).p

\* C10: every call issues at most one request, none when a step before the
\* request fails, and a call that has failed has returned.
C10_NoRetry ==
  \A c \in Calls :
    /\ calls[c].sends <= 1
    /\ calls[c].err \in {"rand", "credentials"} => calls[c].sends = 0
    /\ calls[c].err # "" => calls[c].pc = "done"
    /\ calls[c].pc = "sent" => calls[c].sends = 1

\* a call whose request failed in transport has returned the error
C10_Witness ==
  \E c \in Calls :
    /\ calls[c].pc = "done" /\ calls[c].err = "transport"
    /\ calls[c].sends = 1 /\ calls[c].result = Nil

\* a body that json Decode cannot store into a Session: no JSON, or an
\* access_token that is no string, or a current_time that is no time
Undecodable(body) ==
  \/ body = Nil
  \/ \E i \in DOMAIN Deref(body) :
       LET f == Deref(body)[i]
       IN  \/ f.name = "access_token" /\ f.val.t \notin {"string", "null"}
           \/ f.name = "current_time" /\ f.val.t \notin {"time", "null"}

\* C11: NewSession returns an error and no Session when newToken fails,
\* when getCredentials fails, when the request fails in transport and when
\* the body cannot be decoded into a Session; when newToken or
\* getCredentials fails no request has been built or sent.
C11_NewSessionFailsWithoutSession ==
  \A c \in Calls :
    calls[c].op = "NewSession" =>
      LET cl == calls[c]
      IN  /\ cl.pc \in {"sent", "done"}
          /\ (cl.rand = Nil \/ cl.cred = Nil) =>
                /\ cl.pc = "done" /\ cl.err # "" /\ cl.result = Nil
                /\ cl.sends = 0 /\ cl.http = Nil
          /\ (cl.pc = "done" /\ cl.sends = 1 /\ cl.reply = Nil) =>
                cl.err # "" /\ cl.result = Nil
          /\ (cl.pc = "done" /\ cl.reply # Nil /\ Undecodable(Deref(cl.reply).body)) =>
                cl.err # "" /\ cl.result = Nil
          /\ cl.err # "" => cl.result = Nil

\* NewSession has returned an error on a body whose access_token is a number
C11_Witness ==
  \E c \in Calls :
    /\ calls[c].op = "NewSession" /\ calls[c].pc = "done"
    /\ calls[c].reply # Nil /\ Deref(calls[c].reply).body # Nil
    /\ \E i \in DOMAIN Deref(Deref(calls[c].reply).body) :
         Deref(Deref(calls[c].reply).body)[i] = JField("access_token", JNumber(<<"5">>))
    /\ calls[c].err = "decode" /\ calls[c].result = Nil /\ calls[c].sends = 1

\* the reqId text a reply carries, Nil when it has none
ReplyReqId(reply) ==
  IF reply = Nil THEN Nil ELSE Given(Deref(reply).body, "reqId", "string")

\* the reqId text in the body that call c has sent
SentReqId(c) == bodyReqId(Deref(Deref(calls[c].http).body))

\* C12: under every interleaving of commands, each call signs its own
\* envelope with its own timestamp and its own robot's key, its outcome is
\* decided by its own envelope and the reply delivered to it alone, and a
\* reply that carries the reqId of another command in progress is rejected.
C12_CommandsShareNoState ==
  \A c \in RobotCalls :
    LET cl == calls[c]
    IN  /\ cl.sends > 0 =>
              LET h == Deref(cl.http)
                  r == Deref(cl.robot)
              IN  /\ Deref(cl.req).ReqID = newID(Deref(cl.rand))
                  /\ h.body = Ptr(marshalRequest(Deref(cl.req)))
                  /\ h.header.Date = cl.ts
                  /\ h.header.Authorization =
                       Ptr(NEATOAPP \o hexDigest(HMACSHA256(r.SecretKey,
                             ToLower(r.Serial) \o <<LF>> \o Deref(cl.ts) \o <<LF>>
                               \o Deref(h.body))))
        /\ (cl.pc = "done" /\ cl.sends > 0) =>
              IF ReplyReqId(cl.reply) = Ptr(SentReqId(c))
                THEN /\ cl.err = "" /\ cl.result # Nil
                     /\ Deref(cl.result).ReqID = Deref(cl.req).ReqID
                ELSE cl.err # "" /\ cl.result = Nil
        /\ \A d \in Others(c) :
              (/\ cl.pc = "done" /\ cl.sends > 0 /\ calls[d].http # Nil
               /\ ReplyReqId(cl.reply) = Ptr(SentReqId(d))
               /\ SentReqId(d) # SentReqId(c)) =>
                cl.err = "conflicting ReqID value" /\ cl.result = Nil

\* a command has rejected the reply meant for another command, which is
\* still in flight on the same robot with another timestamp
C12_Witness ==
  \E c \in RobotCalls : \E d \in Others(c) :
    /\ calls[c].pc = "done" /\ calls[c].sends > 0 /\ calls[d].pc = "sent"
    /\ calls[d].robot = calls[c].robot
    /\ calls[d].ts # calls[c].ts
    /\ SentReqId(d) # SentReqId(c)
    /\ ReplyReqId(calls[c].reply) = Ptr(SentReqId(d))
    /\ calls[c].err = "conflicting ReqID value" /\ calls[c].result = Nil

\* C13 as claimed: a Refresh that returns an error, whichever step failed,
\* leaves accessToken and issuedAt of the Session as they were before the
\* call.
C13_FailedRefreshKeepsSession ==
  [][\A c \in Calls :
       (/\ calls'[c].op = "Refresh" /\ calls'[c].pc = "done" /\ calls'[c].err # ""
        /\ calls[c].pc # "done") =>
         /\ session # Nil /\ session' # Nil
         /\ Deref(session').AccessToken = Deref(session).AccessToken
         /\ Deref(session').CurrentTime = Deref(session).CurrentTime]_vars

\* the text of a signed message after the serial line and the timestamp line
SignedEnvelope(cl) ==
  LET msg == SignedMessage(Deref(cl.http).header)
      skip == Len(Deref(cl.robot).Serial) + 1 + Len(Deref(cl.ts)) + 1
  IN  SubSeq(msg, skip + 1, Len(msg))

\* C14: the body of every Nucleo request that is sent is, byte for byte,
\* the envelope text inside the signing string under its Authorization
\* header, and the envelope of the call is the one newRequest made, from
\* the marshalling of the body to the return of the call.
C14_SignatureCoversBody ==
  \A c \in RobotCalls :
    LET cl == calls[c]
    IN  /\ cl.req # Nil =>
              cl.req = Ptr([ReqID |-> newID(Deref(cl.rand)), Cmd |-> Deref(cl.args).cmd,
                            Params |-> Deref(cl.args).p])
        /\ cl.sends > 0 =>
              /\ Deref(cl.http).body # Nil
              /\ SignedEnvelope(cl) = Deref(Deref(cl.http).body)
              /\ SignedEnvelope(cl) = marshalRequest(Deref(cl.req))

\* a command with parameters is in flight, sent in a later second than
\* the clock showed before the timestamp was taken
C14_Witness ==
  \E c \in RobotCalls :
    /\ calls[c].pc = "sent"
    /\ Deref(calls[c].req).Params # Nil
    /\ Deref(calls[c].ts) = Format(now) /\ Format(now) # Format(0)
    /\ Len(SignedEnvelope(calls[c])) > 80

\* C15 as claimed: when NewSession or Refresh has returned without error,
\* the response carried an access_token, it is not empty, and it is the
\* accessToken of the Session.
C15_SuccessHasServerToken ==
  \A c \in SessionCalls :
    (calls[c].pc = "done" /\ calls[c].err = "") =>
      LET tok == Given(Deref(calls[c].reply).body, "access_token", "string")
      IN  /\ tok # Nil
          /\ Deref(tok) # <<>>
          /\ session # Nil
          /\ Deref(session).AccessToken = Deref(tok)

====
